---- MODULE Spec2Model ----
(***************************************************************************)
(* A model of bachata: the messages center (base.py), the Redis queues in  *)
(* best-effort and reliable mode (redis.py), the DirectRoute (routes.py),  *)
(* the protocol (proto.py) and the Tornado adapter (tornado.py).           *)
(*                                                                         *)
(* Granularity.  Every listener owns a dedicated Redis connection: the     *)
(* instant Redis executes one of its commands and the instant the listener *)
(* coroutine resumes with the reply are separate steps.  All other tasks   *)
(* share the queue's main connection, on which Redis executes the commands *)
(* in the order they are issued: such a command is modelled at the instant *)
(* it is issued, one command per step.  WebSocket writes are synchronous   *)
(* and belong to the step of the coroutine segment that makes them.        *)
(*                                                                         *)
(* Strings.  Channel names are such that no channel name is a prefix of    *)
(* another one, of the close command or of a JSON text, and message ids    *)
(* are unique per message (proto.py, "any other unique string").           *)
(***************************************************************************)
EXTENDS Integers, Sequences, FiniteSets, TLC

\* ------------------------------------------------------------------ bounds
NConn == 3          \* connections accepted in one run
NMsg == 2           \* data messages carrying an id handled in one run
MaxAcks == 2        \* type 200 messages handled in one run
MaxPings == 1       \* type 1001 messages handled in one run
MaxInline == 1      \* id-less messages created at the server in one run

Conns == 1..NConn
\* The workloads checked: how many connections are accepted and closed, how
\* many messages with an id connections send and the server creates, how many
\* type 200 and type 1001 messages are handled and how many id-less messages
\* the server creates.
Workload(conns, closes, sent, created, gotits, pings, inline) ==
    [conns |-> conns, closes |-> closes, sent |-> sent, created |-> created,
     acks |-> gotits, pings |-> pings, inline |-> inline]
Workloads ==
    {Workload(NConn - 1, NConn - 1, NMsg - 1, 0, MaxAcks, MaxPings, 0),
     Workload(NConn - 1, NConn - 1, 0, NMsg, 0, 0, 0),
     Workload(NConn, 1, 0, NMsg - 1, 0, 0, MaxInline),
     Workload(NConn, 1, NMsg - 1, 0, 0, 0, 0)}

Chans == {"a", "b"}
\* The Redis lists named after a channel: a message handled without a
\* connection is stored with the from channel "".
ListNames == Chans \cup {""}
IdNames == <<"x", "y", "z", "w">>
Ids == {IdNames[i] : i \in 1..NMsg}
DataOf(m) == IF m = "x" THEN "hi" ELSE "yo"

\* ------------------------------------------------------- protocol (proto.py)
TRANS_READY == 1000
TRANS_PING == 1001
TRANS_PONG == 1002
TRANS_SERV_GOT_IT == 100
TRANS_RECV_GOT_IT == 200
TRANS_DELIVERED == 300
TRANS_TYPES == {TRANS_PING, TRANS_PONG, TRANS_SERV_GOT_IT, TRANS_RECV_GOT_IT,
                TRANS_DELIVERED}

\* A JSON value: absent, an integer or a string.
JNone == [j |-> "none", n |-> 0, s |-> ""]
JInt(i) == [j |-> "int", n |-> i, s |-> ""]
JStr(t) == [j |-> "str", n |-> 0, s |-> t]
Truthy(v) == /\ v.j # "none"
             /\ ~(v.j = "int" /\ v.n = 0)
             /\ ~(v.j = "str" /\ v.s = "")
\* Python's str(): the decimal digits of an integer are a string of their own,
\* here the string value that keeps the number.
Str(v) == IF v.j = "int" THEN [j |-> "str", n |-> v.n, s |-> ""] ELSE v

\* A message dict: a key that is not in the dict maps to JNone.
Fields == {"id", "type", "data", "dest"}
EmptyDict == [f \in Fields |-> JNone]
Has(message, f) == message[f].j # "none"

make_message(id, type, data, dest) ==
    [f \in Fields |->
        CASE f = "id" -> IF Truthy(id) THEN Str(id) ELSE JNone
          [] f = "type" -> IF Truthy(type) THEN type ELSE JNone
          [] f = "data" -> IF Truthy(data) THEN data ELSE JNone
          [] f = "dest" -> IF Truthy(dest) THEN Str(dest) ELSE JNone]

\* A value stored in Redis or written to a WebSocket is a byte string: a JSON
\* object text (its members, in no order), a message key "channel:id", a
\* plain channel name, or the close command.
NoVal == [k |-> "none", ch |-> "", id |-> "", body |-> {}]
Json(members) == [k |-> "json", ch |-> "", id |-> "", body |-> members]
Key(ch, id) == [k |-> "key", ch |-> ch, id |-> id, body |-> {}]
Plain(ch) == [k |-> "plain", ch |-> ch, id |-> "", body |-> {}]
CLOSE_COMMAND == [k |-> "close", ch |-> "", id |-> "", body |-> {}]

\* json.dumps: one member per key of the dict.
dump_message(message) ==
    Json({[f |-> f, v |-> message[f]] : f \in {g \in Fields : Has(message, g)}})
\* A faulty json.loads that raises for no text.
LoadableAny(text) == TRUE
\* json.loads of a JSON object text; any other text raises ValueError.
Loadable(text) == text.k = "json"
load_message(text) ==
    [f \in Fields |->
        IF \E p \in text.body : p.f = f
        THEN (CHOOSE p \in text.body : p.f = f).v
        ELSE JNone]

\* '%s:%s' % (channel, message_id); val.startswith(channel)
message_key(channel, message_id) == Key(channel, message_id.s)
StartsWith(val, channel) == val.k \in {"key", "plain"} /\ val.ch = channel

\* ----------------------------------------------------- Redis list commands
\* A list is a sequence whose first element is the left end.
LPush(l, v) == <<v>> \o l
RPush(l, vs) == l \o vs
Front(l) == SubSeq(l, 1, Len(l) - 1)
Last(l) == l[Len(l)]
LIndex0(l) == IF l = <<>> THEN NoVal ELSE l[1]
LPopped(l) == IF l = <<>> THEN <<>> ELSE Tail(l)
Reverse(l) == [i \in 1..Len(l) |-> l[Len(l) + 1 - i]]
RECURSIVE LRem(_, _, _)
\* LREM key count value: count > 0 removes the first count occurrences from
\* the left, count = 0 removes them all.
LRem(l, count, v) ==
    IF l = <<>> THEN <<>>
    ELSE IF Head(l) = v
         THEN IF count = 1 THEN Tail(l)
              ELSE LRem(Tail(l), IF count = 0 THEN 0 ELSE count - 1, v)
         ELSE <<Head(l)>> \o LRem(Tail(l), count, v)
Occurs(l, v) == \E i \in 1..Len(l) : l[i] = v

\* ------------------------------------------------------------------- state
VARIABLES
    reliable,   \* RedisMessagesCenter(reliable=...): the queue class in use
    chan,       \* chan[c]: the channel of connection c, "" before it is accepted
    is_closed,  \* websocket.is_closed
    out,        \* out[c]: the frames written to WebSocket c, in order
    inq,        \* inq[ch]: the Redis list "ch"
    waitq,      \* waitq[ch]: the Redis list "ch:wait"
    store,      \* store[ch][id]: the Redis list "ch:id"
    lis,        \* lis[c]: the listen_queue task of connection c
    msgs,       \* msgs[id]: the process() call of the data message id
    acks,       \* acks[i]: the process() call of the i-th type 200 message
    nPing,      \* type 1001 messages handled so far
    nInline,    \* id-less messages created at the server so far
    limits,     \* what the environment does at most in this run
    popped,     \* history: popped[c] is what the listener of c has popped from
                \* the list of its channel, in order
    resume,     \* history: resume[c] is what closed connections of its
                \* channel had left unacknowledged when c was attached
    routes,     \* self.routes: the routing chain, in registration order
    handled,    \* history: the last process() call of a message taken from
                \* Messages, and what it did
    walk        \* the process() task whose routes suspend, step by step

vars == <<reliable, chan, is_closed, out, inq, waitq, store, lis, msgs, acks,
          nPing, nInline, limits, popped, resume, routes, handled, walk>>

Attached(c) == chan[c] # ""
Open(c) == Attached(c) /\ ~is_closed[c]

\* The listener of a connection: pc names the Redis command it waits on or
\* the reply it has not resumed with yet, val is that reply, todo what is
\* left of the LRANGE reply in _send_wait_queue.
Listener(pc, val, todo) == [pc |-> pc, val |-> val, todo |-> todo]
NoListener == Listener("none", NoVal, <<>>)

\* A command on the main connection.
Cmd(op, ch, id, vals) == [op |-> op, ch |-> ch, id |-> id, vals |-> vals]
\* A process() call of a data message; to, gone and after are history: the
\* open and the closed connections of the destination when a connection's
\* message was handled, and the messages already enqueued to the destination
\* when the call began.
NoTask == [pc |-> "unsent", from |-> 0, dest |-> "", cmds |-> <<>>,
           to |-> {}, gone |-> {}, after |-> {}]
\* A process() call of a type 200 message; got is history: pop_delivered's
\* first LPOP returned a stored record.
NoAck == [pc |-> "idle", conn |-> 0, id |-> JNone, raw |-> NoVal, from |-> NoVal,
          got |-> FALSE]

\* The routing chain of the test and example applications: one DirectRoute.
TestRoutes == <<"DirectRoute">>
\* A process() call: the n-th call, the connection it came from (0: none),
\* the message, how many routes it invoked, the channel lists it passed to
\* put_message, the frames it wrote to the connection, whether it raised,
\* whether it started the handlers of type 200 and of type 1001, and the
\* commands its put_message has still to issue.
NoCall == [n |-> 0, from |-> 0, message |-> EmptyDict, invoked |-> 0,
           enq |-> <<>>, wrote |-> <<>>, raised |-> FALSE, ack |-> FALSE,
           ping |-> FALSE, cmds |-> <<>>]

\* The process() task of the step-by-step model: where it is, the connection
\* the frame came from (0: none), the frame and the message loaded from it,
\* the place in self.routes of the route whose process it is suspended in and
\* that route, the destinations collected and the commands put_message has
\* still to issue, and the post_process tasks it created.  History: the
\* routes registered when the loop began, the routes consulted, in order,
\* whether a route's process raised, and how often the chain was changed.
NoWalk == [pc |-> "idle", from |-> 0, raw |-> NoVal, message |-> EmptyDict,
           i |-> 0, route |-> "", destinations |-> <<>>, cmds |-> <<>>,
           posts |-> <<>>, began |-> <<>>, consulted |-> <<>>,
           raised |-> FALSE, changes |-> 0]

Init ==
    /\ reliable \in BOOLEAN
    /\ chan = [c \in Conns |-> ""]
    /\ is_closed = [c \in Conns |-> FALSE]
    /\ out = [c \in Conns |-> <<>>]
    /\ inq = [ch \in ListNames |-> <<>>]
    /\ waitq = [ch \in Chans |-> <<>>]
    /\ store = [ch \in Chans |-> [m \in Ids |-> <<>>]]
    /\ lis = [c \in Conns |-> NoListener]
    /\ msgs = [m \in Ids |-> NoTask]
    /\ acks = [i \in 1..MaxAcks |-> NoAck]
    /\ nPing = 0
    /\ nInline = 0
    /\ limits \in Workloads
    /\ popped = [c \in Conns |-> <<>>]
    /\ resume = [c \in Conns |-> <<>>]
    /\ routes = TestRoutes
    /\ handled = NoCall
    /\ walk = NoWalk

\* ------------------------------------------------------ the queue (redis.py)
\* RedisQueue.put_message and ReliableRedisQueue.put_message: the commands
\* the call issues on the main connection, in order.
\* A faulty ReliableRedisQueue.put_message that pushes the key of a message
\* before it stores the message.
put_message_key_first(channels, message, is_dict, raw, from_channel) ==
    IF reliable /\ is_dict /\ Has(message, "id")
    THEN [i \in 1..(2 * Len(channels)) |->
            IF i % 2 = 0
            THEN Cmd("rpush", channels[i \div 2], message["id"].s,
                     <<dump_message(message), Plain(from_channel)>>)
            ELSE Cmd("lpush", channels[(i + 1) \div 2], "",
                     <<message_key(channels[(i + 1) \div 2], message["id"])>>)]
    ELSE [i \in 1..Len(channels) |->
            Cmd("lpush", channels[i], "",
                <<IF is_dict THEN dump_message(message) ELSE raw>>)]
put_message(channels, message, is_dict, raw, from_channel) ==
    IF ~reliable
    THEN [i \in 1..Len(channels) |->
            Cmd("lpush", channels[i], "",
                <<IF is_dict THEN dump_message(message) ELSE raw>>)]
    ELSE IF is_dict /\ Has(message, "id")
    THEN [i \in 1..(2 * Len(channels)) |->
            IF i % 2 = 1
            THEN Cmd("rpush", channels[(i + 1) \div 2], message["id"].s,
                     <<dump_message(message), Plain(from_channel)>>)
            ELSE Cmd("lpush", channels[i \div 2], "",
                     <<message_key(channels[i \div 2], message["id"])>>)]
    ELSE [i \in 1..Len(channels) |->
            Cmd("lpush", channels[i], "",
                <<IF is_dict THEN dump_message(message) ELSE raw>>)]

\* A faulty queue whose LPUSH adds at the right end, where the listeners pop.
InqAfterRight(cmd) ==
    IF cmd.op = "lpush" /\ cmd.ch \in ListNames
    THEN [inq EXCEPT ![cmd.ch] = RPush(@, <<cmd.vals[1]>>)] ELSE inq
\* Redis executes one LPUSH or RPUSH.
InqAfter(cmd) ==
    IF cmd.op = "lpush" /\ cmd.ch \in ListNames
    THEN [inq EXCEPT ![cmd.ch] = LPush(@, cmd.vals[1])] ELSE inq
\* A faulty queue whose RPUSH stores the frame without the from channel.
StoreAfterFrameOnly(cmd) ==
    IF cmd.op = "rpush" /\ cmd.ch \in Chans /\ cmd.id \in Ids
    THEN [store EXCEPT ![cmd.ch][cmd.id] = RPush(@, <<cmd.vals[1]>>)] ELSE store
StoreAfter(cmd) ==
    IF cmd.op = "rpush" /\ cmd.ch \in Chans /\ cmd.id \in Ids
    THEN [store EXCEPT ![cmd.ch][cmd.id] = RPush(@, cmd.vals)] ELSE store

\* History: a type 200 message for m has been received on channel ch.
AckBegun(ch, m) ==
    \E i \in 1..MaxAcks :
        acks[i].pc # "idle" /\ acks[i].id = JStr(m) /\ chan[acks[i].conn] = ch
\* History: v is the key of a message which a listener of ch has moved to the
\* wait queue and written to its connection, closed by now, and for which no
\* type 200 message has been received.
Unacked(ch, v) ==
    /\ v.k = "key"
    /\ v.id \in Ids
    /\ ~AckBegun(ch, v.id)
    /\ \E b \in Conns : /\ is_closed[b]
                        /\ chan[b] = ch
                        /\ Occurs(popped[b], v)
                        /\ Occurs(out[b], LIndex0(store[ch][v.id]))
\* History: these keys, those of the wait queue first, the oldest first.
Resumable(ch) ==
    SelectSeq(Reverse(waitq[ch]), LAMBDA v : Unacked(ch, v))
    \o SelectSeq([i \in 1..NMsg |-> Key(ch, IdNames[i])],
                 LAMBDA v : Unacked(ch, v) /\ ~Occurs(waitq[ch], v))

\* websocket.write_message on an open connection.
Written(c, frames) == [out EXCEPT ![c] = @ \o frames]

\* RedisQueue.add_socket, called by MessagesHandler.open_async once the
\* connection is accepted.  Connections are numbered in the order accepted,
\* and the first channel in use is called "a".
\* A faulty add_socket that writes no handshake frame.
ReadyFramesNone == <<>>
ReadyFrames == <<dump_message(make_message(JNone, JInt(TRANS_READY), JNone, JNone))>>
add_socket(c, ch) ==
    /\ ~Attached(c)
    /\ \A k \in 1..(c - 1) : Attached(k)
    /\ c <= limits.conns
    /\ c = 1 => ch = "a"
    /\ chan' = [chan EXCEPT ![c] = ch]
    /\ is_closed' = [is_closed EXCEPT ![c] = FALSE]
    /\ out' = Written(c, ReadyFrames)
    /\ lis' = [lis EXCEPT ![c] =
                  Listener(IF reliable THEN "lrange" ELSE "brpop", NoVal, <<>>)]
    /\ resume' = [resume EXCEPT ![c] = Resumable(ch)]
    /\ UNCHANGED <<walk, routes, handled, limits, popped, reliable, inq, waitq, store, msgs, acks, nPing, nInline>>

\* RedisQueue.del_socket, called by MessagesHandler.on_close, and the
\* put_message task it creates.
del_socket(c) ==
    /\ Open(c)
    /\ Cardinality({k \in Conns : is_closed[k]}) < limits.closes
    /\ is_closed' = [is_closed EXCEPT ![c] = TRUE]
    /\ inq' = InqAfter(put_message(<<chan[c]>>, EmptyDict, FALSE,
                                   CLOSE_COMMAND, "")[1])
    /\ UNCHANGED <<walk, routes, handled, limits, resume, popped, reliable, chan, out, waitq, store, lis, msgs, acks, nPing,
                   nInline>>

\* A listener writes a frame to its WebSocket.  Once the connection is closed
\* Tornado either raises WebSocketClosedError, which ends the task, or drops
\* the frame, depending on its version: raised tells which.
ListenerWrites(c, frames, raised, next) ==
    IF is_closed[c]
    THEN /\ out' = out
         /\ lis' = [lis EXCEPT ![c] =
                       IF raised /\ frames # <<>>
                       THEN Listener("dead", NoVal, <<>>) ELSE next]
    ELSE /\ out' = Written(c, frames)
         /\ lis' = [lis EXCEPT ![c] = next]

\* RedisQueue.listen_queue: Redis executes the BRPOP, or lets it time out on
\* an empty list.
brpop(c) ==
    /\ lis[c].pc = "brpop"
    /\ inq[chan[c]] # <<>>
    /\ inq' = [inq EXCEPT ![chan[c]] = Front(@)]
    /\ lis' = [lis EXCEPT ![c] = Listener("brpop_ret", Last(inq[chan[c]]), <<>>)]
    /\ popped' = [popped EXCEPT ![c] = Append(@, Last(inq[chan[c]]))]
    /\ UNCHANGED <<walk, routes, handled, limits, resume, reliable, chan, is_closed, out, waitq, store, msgs, acks,
                   nPing, nInline>>

brpop_timeout(c) ==
    /\ lis[c].pc = "brpop"
    /\ inq[chan[c]] = <<>>
    /\ lis' = [lis EXCEPT ![c] = Listener("brpop_ret", NoVal, <<>>)]
    /\ UNCHANGED <<walk, routes, handled, limits, resume, popped, reliable, chan, is_closed, out, inq, waitq, store, msgs,
                   acks, nPing, nInline>>

\* RedisQueue.listen_queue: the coroutine resumes with the reply.
BestEffortFrames(c, val) == IF val # NoVal THEN <<val>> ELSE <<>>
listen_queue(c) ==
    /\ lis[c].pc = "brpop_ret"
    /\ IF is_closed[c]
       THEN /\ lis' = [lis EXCEPT ![c] = Listener("done", NoVal, <<>>)]
            /\ out' = out
       ELSE /\ lis' = [lis EXCEPT ![c] = Listener("brpop", NoVal, <<>>)]
            /\ out' = Written(c, BestEffortFrames(c, lis[c].val))
    /\ UNCHANGED <<walk, routes, handled, limits, resume, popped, reliable, chan, is_closed, inq, waitq, store, msgs, acks,
                   nPing, nInline>>

\* ReliableRedisQueue._send_wait_queue: what the loop does with the values
\* left.  A key of the channel is looked up with LINDEX, any other value is
\* removed from the wait queue through the main connection, and after the
\* last value listen_queue issues its BRPOPLPUSH.  (A coroutine segment that
\* only issues the next command of the listener's own connection is part of
\* the step before it.)
WaitOrder(l) == Reverse(l)
SendWaitQueue(todo, channel) ==
    IF todo = <<>> THEN Listener("brpoplpush", NoVal, <<>>)
    ELSE IF StartsWith(Head(todo), channel) THEN Listener("d_lindex", NoVal, todo)
    ELSE Listener("drain", NoVal, todo)

\* ReliableRedisQueue._send_wait_queue: Redis executes the LRANGE.
send_wait_queue_lrange(c) ==
    /\ lis[c].pc = "lrange"
    /\ lis' = [lis EXCEPT ![c] = SendWaitQueue(WaitOrder(waitq[chan[c]]), chan[c])]
    /\ UNCHANGED <<walk, routes, handled, limits, resume, popped, reliable, chan, is_closed, out, inq, waitq, store, msgs,
                   acks, nPing, nInline>>

\* ReliableRedisQueue._send_wait_queue: a value that is no key of the channel
\* is removed with LREM on the main connection.
send_wait_queue_lrem(c) ==
    /\ lis[c].pc = "drain"
    /\ lis' = [lis EXCEPT ![c] = SendWaitQueue(Tail(lis[c].todo), chan[c])]
    /\ waitq' = [waitq EXCEPT ![chan[c]] = LRem(@, 1, Head(lis[c].todo))]
    /\ UNCHANGED <<walk, routes, handled, limits, resume, popped, reliable, chan, is_closed, out, inq, store, msgs, acks,
                   nPing, nInline>>

\* ReliableRedisQueue._write_message: Redis executes the LINDEX of a key.
write_message_lindex(c) ==
    /\ lis[c].pc \in {"d_lindex", "lindex"}
    /\ LET key == IF lis[c].pc = "d_lindex" THEN Head(lis[c].todo) ELSE lis[c].val
       IN lis' = [lis EXCEPT ![c] =
                     Listener(IF @.pc = "d_lindex" THEN "d_lindex_ret" ELSE "lindex_ret",
                              IF key.id \in Ids THEN LIndex0(store[key.ch][key.id])
                              ELSE NoVal,
                              @.todo)]
    /\ UNCHANGED <<walk, routes, handled, limits, resume, popped, reliable, chan, is_closed, out, inq, waitq, store, msgs,
                   acks, nPing, nInline>>

\* ReliableRedisQueue._write_message: the coroutine resumes with the stored
\* dump and writes it, if there is one.
StoredFrames(val) == IF val # NoVal THEN <<val>> ELSE <<>>
write_message(c, raised) ==
    /\ lis[c].pc \in {"d_lindex_ret", "lindex_ret"}
    /\ ListenerWrites(c, StoredFrames(lis[c].val), raised,
                      IF lis[c].pc = "d_lindex_ret"
                      THEN SendWaitQueue(Tail(lis[c].todo), chan[c])
                      ELSE Listener("brpoplpush", NoVal, <<>>))
    /\ UNCHANGED <<walk, routes, handled, limits, resume, popped, reliable, chan, is_closed, inq, waitq, store, msgs, acks,
                   nPing, nInline>>

\* ReliableRedisQueue.listen_queue: what the loop does with the value popped:
\* the close command is removed from the wait queue with LREM, a key of the
\* channel is looked up with LINDEX, any other value is a frame to write.
ListenQueue(val, channel) ==
    IF val = CLOSE_COMMAND THEN Listener("lrem", NoVal, <<>>)
    ELSE IF StartsWith(val, channel) THEN Listener("lindex", val, <<>>)
    ELSE Listener("bpl_ret", val, <<>>)

\* ReliableRedisQueue.listen_queue: Redis executes the BRPOPLPUSH.
brpoplpush(c) ==
    /\ lis[c].pc = "brpoplpush"
    /\ inq[chan[c]] # <<>>
    /\ inq' = [inq EXCEPT ![chan[c]] = Front(@)]
    /\ waitq' = [waitq EXCEPT ![chan[c]] = LPush(@, Last(inq[chan[c]]))]
    /\ lis' = [lis EXCEPT ![c] = ListenQueue(Last(inq[chan[c]]), chan[c])]
    /\ popped' = [popped EXCEPT ![c] = Append(@, Last(inq[chan[c]]))]
    /\ UNCHANGED <<walk, routes, handled, limits, resume, reliable, chan, is_closed, out, store, msgs, acks, nPing,
                   nInline>>

\* ReliableRedisQueue.listen_queue and _write_message: the coroutine resumes
\* with a frame to send as it is, writes it and issues the LPOP.
listen_queue_reliable(c, raised) ==
    /\ lis[c].pc = "bpl_ret"
    /\ ListenerWrites(c, <<lis[c].val>>, raised, Listener("lpop", NoVal, <<>>))
    /\ UNCHANGED <<walk, routes, handled, limits, resume, popped, reliable, chan, is_closed, inq, waitq, store, msgs, acks,
                   nPing, nInline>>

\* ReliableRedisQueue.listen_queue: Redis executes the LREM of the close
\* command, and the listener returns.
listen_queue_lrem(c) ==
    /\ lis[c].pc = "lrem"
    /\ waitq' = [waitq EXCEPT ![chan[c]] = LRem(@, 0, CLOSE_COMMAND)]
    /\ lis' = [lis EXCEPT ![c] = Listener("done", NoVal, <<>>)]
    /\ UNCHANGED <<walk, routes, handled, limits, resume, popped, reliable, chan, is_closed, out, inq, store, msgs, acks,
                   nPing, nInline>>

\* ReliableRedisQueue.listen_queue: Redis executes the LPOP that follows a
\* frame sent as it is.
WaitPopped(l) == LPopped(l)
listen_queue_lpop(c) ==
    /\ lis[c].pc = "lpop"
    /\ waitq' = [waitq EXCEPT ![chan[c]] = WaitPopped(@)]
    /\ lis' = [lis EXCEPT ![c] = Listener("brpoplpush", NoVal, <<>>)]
    /\ UNCHANGED <<walk, routes, handled, limits, resume, popped, reliable, chan, is_closed, out, inq, store, msgs, acks,
                   nPing, nInline>>

\* ReliableRedisQueue.check_delivered, by the reply of its LLEN, and
\* BaseQueue.check_delivered, which the best-effort queue inherits.
\* A faulty check_delivered that looks for the key in the wait queue.
check_delivered_wait(channel, message_id) ==
    IF reliable THEN ~Occurs(waitq[channel], Key(channel, message_id)) ELSE TRUE
check_delivered(channel, message_id) ==
    IF reliable THEN Len(store[channel][message_id]) = 0 ELSE TRUE

\* --------------------------------------------- the messages center (base.py)
\* A route's answer: a channel, None (pass) or True (stop).
RouteNone == [r |-> "none", ch |-> ""]
RouteChannel(ch) == [r |-> "channel", ch |-> ch]
DirectRoute_process(message) ==
    IF Has(message, "dest") THEN RouteChannel(message["dest"].s) ELSE RouteNone

\* Routes written against the contract of BaseRoute.process: one that stops
\* the chain (True), one that passes every message on (None) and one that
\* sends every message to one fixed channel; and a route whose process
\* raises an exception ("RaiseRoute").
FixedChannel == "b"
RouteKinds == {"DirectRoute", "StopRoute", "NoneRoute", "ChannelRoute"}
RouteProcess(route, message) ==
    CASE route = "DirectRoute" -> DirectRoute_process(message)
      [] route = "StopRoute" -> [r |-> "stop", ch |-> ""]
      [] route = "ChannelRoute" -> RouteChannel(FixedChannel)
      [] route = "RaiseRoute" -> [r |-> "raise", ch |-> ""]
      [] OTHER -> RouteNone

RECURSIVE Destinations(_, _)
\* BaseMessagesCenter.process: the walk of the chain from route i on.
Destinations(message, i) ==
    IF i > Len(routes) THEN <<>>
    ELSE LET to_channel == RouteProcess(routes[i], message)
         IN IF to_channel.r = "stop" THEN <<>>
            ELSE IF to_channel.r = "channel"
            THEN <<to_channel.ch>> \o Destinations(message, i + 1)
            ELSE Destinations(message, i + 1)

RECURSIVE Invoked(_, _)
\* BaseMessagesCenter.process: how many routes the walk invokes from route i
\* on.
Invoked(message, i) ==
    IF i > Len(routes) THEN 0
    ELSE IF RouteProcess(routes[i], message).r = "stop" THEN 1
    ELSE 1 + Invoked(message, i + 1)

\* A faulty classification that takes every integer type for a transport
\* type.
IsTransportAnyInt(message) == message["type"].j = "int"
IsTransport(message) ==
    message["type"].j = "int" /\ message["type"].n \in TRANS_TYPES

\* BaseMessagesCenter._transport_start and _transport_ping: the frame written
\* to the connection the message came from.
\* A faulty _transport_start that writes nothing.
transport_start_none(message) == <<>>
transport_start(message) ==
    <<dump_message(make_message(JNone, JInt(TRANS_SERV_GOT_IT), message["id"], JNone))>>
\* A faulty _transport_ping that writes nothing.
transport_ping_none(message) == <<>>
transport_ping(message) ==
    <<dump_message(make_message(JNone, JInt(TRANS_PONG), JNone, JNone))>>

\* What a client sends.
DataFrame(m, d) ==
    dump_message([id |-> JStr(m), type |-> JStr("test"), data |-> JStr(DataOf(m)),
                  dest |-> JStr(d)])
AckFrame(m) ==
    dump_message([id |-> JNone, type |-> JInt(TRANS_RECV_GOT_IT), data |-> JStr(m),
                  dest |-> JNone])
PingFrame ==
    dump_message([id |-> JNone, type |-> JInt(TRANS_PING), data |-> JNone,
                  dest |-> JNone])
\* What the server creates itself: a message without an id.
InlineMessage(d) ==
    [id |-> JNone, type |-> JStr("note"), data |-> JStr("hi"), dest |-> JStr(d)]

\* The frames process() writes before it routes, and whether it routes.
TransportFrames(message) ==
    IF IsTransport(message)
    THEN IF message["type"].n = TRANS_PING THEN transport_ping(message) ELSE <<>>
    ELSE transport_start(message)

\* process() of a data message with an id: MessagesHandler.on_message with
\* the frame of connection c (from = c), or a call without a websocket
\* (from = 0).  The task runs to its first Redis command.  The ids are used
\* in the order of IdNames.
process_data(from, m, d) ==
    /\ msgs[m].pc = "unsent"
    /\ IF from = 0
       THEN Cardinality({k \in Ids : msgs[k].pc # "unsent" /\ msgs[k].from = 0})
                < limits.created
       ELSE /\ Open(from)
            /\ Cardinality({k \in Ids : msgs[k].pc # "unsent" /\ msgs[k].from # 0})
                   < limits.sent
    /\ \A i \in 2..NMsg : IdNames[i] = m => msgs[IdNames[i - 1]].pc # "unsent"
    /\ LET message == load_message(DataFrame(m, d))
           to_channels == Destinations(message, 1)
           cmds == put_message(to_channels, message, TRUE, NoVal,
                               IF from = 0 THEN "" ELSE chan[from])
       IN /\ out' = IF from = 0 THEN out ELSE Written(from, TransportFrames(message))
          /\ inq' = IF cmds = <<>> THEN inq ELSE InqAfter(cmds[1])
          /\ store' = IF cmds = <<>> THEN store ELSE StoreAfter(cmds[1])
          /\ msgs' = [msgs EXCEPT ![m] =
                         [pc |-> IF Len(cmds) > 1 THEN "put" ELSE "done",
                          from |-> from, dest |-> d,
                          cmds |-> IF cmds = <<>> THEN <<>> ELSE Tail(cmds),
                          to |-> IF from = 0 THEN {}
                                ELSE {c \in Conns : Open(c) /\ chan[c] = d},
                          gone |-> IF from = 0 THEN {}
                                   ELSE {c \in Conns : is_closed[c] /\ chan[c] = d},
                          after |-> {k \in Ids : msgs[k].pc = "done"
                                                  /\ msgs[k].dest = d}]]
    /\ UNCHANGED <<walk, routes, handled, limits, resume, popped, reliable, chan, is_closed, waitq, lis, acks, nPing, nInline>>

\* put_message resumes with the reply and issues its next command.
put_message_next(m) ==
    /\ msgs[m].pc = "put"
    /\ inq' = InqAfter(Head(msgs[m].cmds))
    /\ store' = StoreAfter(Head(msgs[m].cmds))
    /\ msgs' = [msgs EXCEPT ![m] =
                   [@ EXCEPT !.pc = IF Len(msgs[m].cmds) > 1 THEN "put" ELSE "done",
                             !.cmds = Tail(msgs[m].cmds)]]
    /\ UNCHANGED <<walk, routes, handled, limits, resume, popped, reliable, chan, is_closed, out, waitq, lis, acks, nPing,
                   nInline>>

\* process() of a message without an id, called without a websocket.
process_inline(d) ==
    /\ nInline < limits.inline
    /\ nInline' = nInline + 1
    /\ LET cmds == put_message(Destinations(InlineMessage(d), 1), InlineMessage(d),
                               TRUE, NoVal, "")
       IN inq' = InqAfter(cmds[1])
    /\ UNCHANGED <<walk, routes, handled, limits, resume, popped, reliable, chan, is_closed, out, waitq, store, lis, msgs,
                   acks, nPing>>

\* process() of a ping from connection c, which a client sends right after
\* the handshake.
process_ping(c) ==
    /\ Open(c)
    /\ nPing < limits.pings
    /\ out[c] = ReadyFrames
    /\ nPing' = nPing + 1
    /\ out' = Written(c, TransportFrames(load_message(PingFrame)))
    /\ UNCHANGED <<walk, routes, handled, limits, resume, popped, reliable, chan, is_closed, inq, waitq, store, lis, msgs,
                   acks, nInline>>

\* BaseMessagesCenter._transport_gotit: process() of a type 200 message from
\* connection c, up to the first command of pop_delivered.  BaseQueue's
\* pop_delivered, which the best-effort queue inherits, does nothing.  A
\* client acknowledges a message it has received on this connection.
FirstIdle == CHOOSE i \in 1..MaxAcks : acks[i].pc = "idle" /\ \A k \in 1..(i - 1) : acks[k].pc # "idle"
process_gotit(c, m) ==
    /\ Open(c)
    /\ \E i \in 1..MaxAcks : acks[i].pc = "idle"
    /\ Cardinality({i \in 1..MaxAcks : acks[i].pc # "idle"}) < limits.acks
    /\ msgs[m].pc # "unsent"
    /\ Occurs(out[c], DataFrame(m, chan[c]))
    /\ LET message == load_message(AckFrame(m))
           message_id == message["data"]
       IN IF reliable
          THEN /\ acks' = [acks EXCEPT ![FirstIdle] =
                              [pc |-> "lpop", conn |-> c, id |-> message_id,
                               raw |-> LIndex0(store[chan[c]][message_id.s]),
                               from |-> NoVal,
                               got |-> store[chan[c]][message_id.s] # <<>>]]
               /\ store' = [store EXCEPT ![chan[c]][message_id.s] = LPopped(@)]
          ELSE /\ acks' = [acks EXCEPT ![FirstIdle] =
                              [pc |-> "done", conn |-> c, id |-> message_id,
                               raw |-> NoVal, from |-> NoVal, got |-> FALSE]]
               /\ store' = store
    /\ UNCHANGED <<walk, routes, handled, limits, resume, popped, reliable, chan, is_closed, out, inq, waitq, lis, msgs, nPing,
                   nInline>>

\* ReliableRedisQueue.pop_delivered: the second LPOP.
pop_delivered_lpop(i) ==
    /\ acks[i].pc = "lpop"
    /\ LET ch == chan[acks[i].conn]
       IN /\ acks' = [acks EXCEPT ![i].pc = "lrem",
                                  ![i].from = LIndex0(store[ch][acks[i].id.s])]
          /\ store' = [store EXCEPT ![ch][acks[i].id.s] = LPopped(@)]
    /\ UNCHANGED <<walk, routes, handled, limits, resume, popped, reliable, chan, is_closed, out, inq, waitq, lis, msgs, nPing,
                   nInline>>

\* ReliableRedisQueue.pop_delivered: the LREM on the wait queue.
\* A faulty pop_delivered that leaves the wait queue as it is.
AckRemovedNone(l, key) == l
AckRemoved(l, key) == LRem(l, 1, key)
pop_delivered_lrem(i) ==
    /\ acks[i].pc = "lrem"
    /\ LET ch == chan[acks[i].conn]
       IN waitq' = [waitq EXCEPT ![ch] = AckRemoved(@, message_key(ch, acks[i].id))]
    /\ acks' = [acks EXCEPT ![i].pc = "notify"]
    /\ UNCHANGED <<walk, routes, handled, limits, resume, popped, reliable, chan, is_closed, out, inq, store, lis, msgs, nPing,
                   nInline>>

\* pop_delivered returns and _transport_gotit notifies the sender.  Loading a
\* text that is no JSON text and decoding a missing from channel raise, which
\* ends the task.
\* A faulty pop_delivered that always returns a pair.
DeliveredAlways(ack) == TRUE
Delivered(ack) == ack.raw # NoVal
\* A faulty _transport_gotit that notifies with the id of the last message.
NotificationOther(ack) ==
    make_message(JNone, JInt(TRANS_DELIVERED), JStr(IdNames[Len(IdNames)]), JNone)
Notification(ack) ==
    make_message(JNone, JInt(TRANS_DELIVERED), load_message(ack.raw)["id"], JNone)
transport_gotit(i) ==
    /\ acks[i].pc = "notify"
    /\ IF Delivered(acks[i]) /\ Loadable(acks[i].raw) /\ acks[i].from # NoVal
       THEN /\ inq' = InqAfter(put_message(<<acks[i].from.ch>>, Notification(acks[i]),
                                           TRUE, NoVal, "")[1])
            /\ acks' = [acks EXCEPT ![i].pc = "done", ![i].raw = NoVal,
                                    ![i].from = NoVal]
       ELSE /\ inq' = inq
            /\ acks' = [acks EXCEPT ![i].pc = IF Delivered(acks[i]) THEN "failed"
                                              ELSE "done",
                                    ![i].raw = NoVal, ![i].from = NoVal]
    /\ UNCHANGED <<walk, routes, handled, limits, resume, popped, reliable, chan, is_closed, out, waitq, store, lis, msgs,
                   nPing, nInline>>

\* ------------------------------------------- process() of any message
MaxHandled == 2     \* process() calls of arbitrary messages in one run
MaxRoutes == 2      \* routes registered with add_route
\* The messages handled: with and without an id and a dest, of a data type,
\* of an integer type outside the transport types and of each transport type.
MessageTypes ==
    {JStr("test"), JInt(5), JInt(TRANS_SERV_GOT_IT), JInt(TRANS_RECV_GOT_IT),
     JInt(TRANS_DELIVERED), JInt(TRANS_READY), JInt(TRANS_PING), JInt(TRANS_PONG)}
Messages ==
    {[id |-> i, type |-> t, data |-> JStr(IdNames[1]), dest |-> d] :
        i \in {JNone, JStr(IdNames[1])}, t \in MessageTypes,
        d \in {JNone, JStr("a")}}
\* The chains add_route can build, in registration order.
Chains == UNION {[1..n -> RouteKinds] : n \in 0..MaxRoutes}

\* message['id'] in _transport_start and message['data'] in _transport_gotit
\* raise KeyError when the key is missing.
KeyError(message) ==
    IF IsTransport(message)
    THEN message["type"].n = TRANS_RECV_GOT_IT /\ ~Has(message, "data")
    ELSE ~Has(message, "id")

\* BaseMessagesCenter.process of any message: from connection c (from = c)
\* or without a websocket (from = 0), up to the first Redis command.
process(from, message) ==
    /\ handled.n < MaxHandled
    /\ handled.cmds = <<>>
    /\ from # 0 => Open(from)
    /\ LET raises == from # 0 /\ KeyError(message)
           returns == from # 0 /\ IsTransport(message)
           gotit == returns /\ ~raises /\ message["type"].n = TRANS_RECV_GOT_IT
           routed == ~raises /\ ~returns
           to_channels == IF routed THEN Destinations(message, 1) ELSE <<>>
           cmds == put_message(to_channels, message, TRUE, NoVal,
                               IF from = 0 THEN "" ELSE chan[from])
           frames == IF from # 0 /\ ~raises THEN TransportFrames(message) ELSE <<>>
           message_id == message["data"]
       IN /\ gotit => /\ \E i \in 1..MaxAcks : acks[i].pc = "idle"
                      /\ Cardinality({i \in 1..MaxAcks : acks[i].pc # "idle"})
                             < limits.acks
          /\ out' = IF from = 0 THEN out ELSE Written(from, frames)
          /\ inq' = IF cmds = <<>> THEN inq ELSE InqAfter(cmds[1])
          /\ store' = IF gotit /\ reliable
                      THEN [store EXCEPT ![chan[from]][message_id.s] = LPopped(@)]
                      ELSE IF cmds = <<>> THEN store ELSE StoreAfter(cmds[1])
          /\ acks' = IF gotit
                     THEN [acks EXCEPT ![FirstIdle] =
                              [pc |-> IF reliable THEN "lpop" ELSE "done",
                               conn |-> from, id |-> message_id,
                               raw |-> IF reliable
                                       THEN LIndex0(store[chan[from]][message_id.s])
                                       ELSE NoVal,
                               from |-> NoVal,
                               got |-> reliable
                                       /\ store[chan[from]][message_id.s] # <<>>]]
                     ELSE acks
          /\ handled' = [n |-> handled.n + 1, from |-> from, message |-> message,
                         invoked |-> IF routed THEN Invoked(message, 1) ELSE 0,
                         enq |-> IF to_channels = <<>> THEN <<>>
                                 ELSE <<to_channels>>,
                         wrote |-> frames, raised |-> raises, ack |-> gotit,
                         ping |-> returns /\ message["type"].n = TRANS_PING,
                         cmds |-> IF cmds = <<>> THEN <<>> ELSE Tail(cmds)]
    /\ UNCHANGED <<walk, routes, limits, resume, popped, reliable, chan, is_closed, waitq,
                   lis, msgs, nPing, nInline>>

\* put_message of that call resumes with the reply and issues its next
\* command.
process_put_message ==
    /\ handled.cmds # <<>>
    /\ inq' = InqAfter(Head(handled.cmds))
    /\ store' = StoreAfter(Head(handled.cmds))
    /\ handled' = [handled EXCEPT !.cmds = Tail(@)]
    /\ UNCHANGED <<walk, routes, limits, resume, popped, reliable, chan, is_closed, out,
                   waitq, lis, msgs, acks, nPing, nInline>>

\* ------------------------------------ process() with routes that suspend
MaxChanges == 1     \* add_route and del_route calls in one run
\* The chains of this model may hold a route whose process raises.
WalkKinds == RouteKinds \cup {"RaiseRoute"}
WalkChains == UNION {[1..n -> WalkKinds] : n \in 0..MaxRoutes}
\* The frames handled: a data message with an id, with and without a dest,
\* and a text that is no JSON text.
WalkMessages ==
    {[id |-> JStr(IdNames[1]), type |-> JStr("test"),
      data |-> JStr(DataOf(IdNames[1])), dest |-> d] : d \in {JNone, JStr("a")}}
RawFrames == {dump_message(message) : message \in WalkMessages} \cup {Plain("hi")}

\* `for route in self.routes`: after the route at place i has answered, the
\* loop is left on True (break) and when the list, as it is now, has no
\* place i + 1.
\* A faulty loop that is left after the first answer.
LoopEndedAlways(i, answer) == TRUE
LoopEnded(i, answer) == IF answer.r = "stop" THEN TRUE ELSE i >= Len(routes)
\* The put_message call that follows the loop.
LoopCmds(w, destinations) ==
    IF destinations = <<>> THEN <<>>
    ELSE put_message([k \in 1..Len(destinations) |-> destinations[k].ch],
                     w.message, TRUE, NoVal,
                     IF w.from = 0 THEN "" ELSE chan[w.from])
\* loop.create_task(route.post_process(message, to_channel, queue)) for each
\* collected pair.
\* A faulty process() that starts no post_process task.
PostsNone(destinations) == <<>>
Posts(destinations) ==
    [k \in 1..Len(destinations) |->
        [route |-> destinations[k].route, ch |-> destinations[k].ch,
         pc |-> "started"]]

\* process(raw, websocket) up to its first suspension: load_message, whose
\* ValueError ends the call, the transport layer, and the call of the first
\* route's process.
walk_start(from, raw) ==
    /\ walk.pc = "idle"
    /\ from # 0 => Open(from)
    /\ IF ~Loadable(raw)
       THEN /\ walk' = [walk EXCEPT !.pc = "dropped", !.from = from, !.raw = raw]
            /\ out' = out
       ELSE /\ walk' = [walk EXCEPT
                           !.pc = IF routes = <<>> THEN "done" ELSE "route",
                           !.from = from, !.raw = raw,
                           !.message = load_message(raw),
                           !.i = IF routes = <<>> THEN 0 ELSE 1,
                           !.route = IF routes = <<>> THEN "" ELSE routes[1],
                           !.began = routes,
                           !.consulted = IF routes = <<>> THEN <<>>
                                         ELSE <<routes[1]>>]
            /\ out' = IF from = 0 THEN out
                      ELSE Written(from, TransportFrames(load_message(raw)))
    /\ UNCHANGED <<routes, handled, limits, resume, popped, reliable, chan,
                   is_closed, inq, waitq, store, lis, msgs, acks, nPing, nInline>>

\* The route's process returns or raises: the loop body, the call of the
\* next route's process or, after the loop, put_message up to its first
\* Redis command.  An exception of the route ends the process() task.
walk_route ==
    /\ walk.pc = "route"
    /\ LET answer == RouteProcess(walk.route, walk.message)
           destinations ==
               IF answer.r = "channel"
               THEN Append(walk.destinations, [route |-> walk.route, ch |-> answer.ch])
               ELSE walk.destinations
           cmds == LoopCmds(walk, destinations)
       IN IF answer.r = "raise"
          THEN /\ walk' = [walk EXCEPT !.pc = "raised", !.raised = TRUE]
               /\ inq' = inq
               /\ store' = store
          ELSE IF LoopEnded(walk.i, answer)
          THEN /\ walk' = [walk EXCEPT
                              !.pc = IF Len(cmds) > 1 THEN "put" ELSE "done",
                              !.destinations = destinations,
                              !.cmds = IF cmds = <<>> THEN <<>> ELSE Tail(cmds),
                              !.posts = IF Len(cmds) > 1 THEN <<>>
                                        ELSE Posts(destinations)]
               /\ inq' = IF cmds = <<>> THEN inq ELSE InqAfter(cmds[1])
               /\ store' = IF cmds = <<>> THEN store ELSE StoreAfter(cmds[1])
          ELSE /\ walk' = [walk EXCEPT
                              !.i = walk.i + 1,
                              !.route = routes[walk.i + 1],
                              !.destinations = destinations,
                              !.consulted = Append(@, routes[walk.i + 1])]
               /\ inq' = inq
               /\ store' = store
    /\ UNCHANGED <<routes, handled, limits, resume, popped, reliable, chan,
                   is_closed, out, waitq, lis, msgs, acks, nPing, nInline>>

\* put_message resumes with the reply and issues its next command; after the
\* last reply process() creates the post_process tasks.
walk_put ==
    /\ walk.pc = "put"
    /\ inq' = InqAfter(Head(walk.cmds))
    /\ store' = StoreAfter(Head(walk.cmds))
    /\ walk' = [walk EXCEPT
                   !.pc = IF Len(walk.cmds) > 1 THEN "put" ELSE "done",
                   !.cmds = Tail(walk.cmds),
                   !.posts = IF Len(walk.cmds) > 1 THEN <<>>
                             ELSE Posts(walk.destinations)]
    /\ UNCHANGED <<routes, handled, limits, resume, popped, reliable, chan,
                   is_closed, out, waitq, lis, msgs, acks, nPing, nInline>>

\* The process() task is cancelled while it is suspended in a route.
walk_cancel ==
    /\ walk.pc = "route"
    /\ walk' = [walk EXCEPT !.pc = "cancelled"]
    /\ UNCHANGED <<routes, handled, limits, resume, popped, reliable, chan,
                   is_closed, out, inq, waitq, store, lis, msgs, acks, nPing,
                   nInline>>

\* BaseMessagesCenter.add_route with a new route object of the kind.
add_route(route) ==
    /\ walk.changes < MaxChanges
    /\ routes' = Append(routes, route)
    /\ walk' = [walk EXCEPT !.changes = @ + 1]
    /\ UNCHANGED <<handled, limits, resume, popped, reliable, chan, is_closed, out,
                   inq, waitq, store, lis, msgs, acks, nPing, nInline>>

\* BaseMessagesCenter.del_route of the route object at place k.
del_route(k) ==
    /\ walk.changes < MaxChanges
    /\ k \in 1..Len(routes)
    /\ routes' = SubSeq(routes, 1, k - 1) \o SubSeq(routes, k + 1, Len(routes))
    /\ walk' = [walk EXCEPT !.changes = @ + 1]
    /\ UNCHANGED <<handled, limits, resume, popped, reliable, chan, is_closed, out,
                   inq, waitq, store, lis, msgs, acks, nPing, nInline>>

\* A post_process task runs to its end or raises.
post_process(k, raised) ==
    /\ k \in 1..Len(walk.posts)
    /\ walk.posts[k].pc = "started"
    /\ walk' = [walk EXCEPT !.posts[k].pc = IF raised THEN "failed" ELSE "done"]
    /\ UNCHANGED <<routes, handled, limits, resume, popped, reliable, chan,
                   is_closed, out, inq, waitq, store, lis, msgs, acks, nPing,
                   nInline>>

\* ------------------------------------------------------------ specification
Next ==
    \/ \E c \in Conns, ch \in Chans : add_socket(c, ch)
    \/ \E c \in Conns : del_socket(c)
    \/ \E c \in Conns : brpop(c)
    \/ \E c \in Conns : brpop_timeout(c)
    \/ \E c \in Conns : listen_queue(c)
    \/ \E c \in Conns : send_wait_queue_lrange(c)
    \/ \E c \in Conns : send_wait_queue_lrem(c)
    \/ \E c \in Conns : write_message_lindex(c)
    \/ \E c \in Conns, raised \in BOOLEAN : write_message(c, raised)
    \/ \E c \in Conns : brpoplpush(c)
    \/ \E c \in Conns, raised \in BOOLEAN : listen_queue_reliable(c, raised)
    \/ \E c \in Conns : listen_queue_lrem(c)
    \/ \E c \in Conns : listen_queue_lpop(c)
    \/ \E from \in {0} \cup Conns, m \in Ids, d \in Chans : process_data(from, m, d)
    \/ \E m \in Ids : put_message_next(m)
    \/ \E d \in Chans : process_inline(d)
    \/ \E c \in Conns : process_ping(c)
    \/ \E c \in Conns, m \in Ids : process_gotit(c, m)
    \/ \E i \in 1..MaxAcks : pop_delivered_lpop(i)
    \/ \E i \in 1..MaxAcks : pop_delivered_lrem(i)
    \/ \E i \in 1..MaxAcks : transport_gotit(i)

Spec == Init /\ [][Next]_vars

\* The messages center with any chain of routes and one connection, handling
\* arbitrary messages; the listener of the connection has not run yet.
RouteInit ==
    /\ reliable \in BOOLEAN
    /\ chan = [c \in Conns |-> ""]
    /\ is_closed = [c \in Conns |-> FALSE]
    /\ out = [c \in Conns |-> <<>>]
    /\ inq = [ch \in ListNames |-> <<>>]
    /\ waitq = [ch \in Chans |-> <<>>]
    /\ store = [ch \in Chans |-> [m \in Ids |-> <<>>]]
    /\ lis = [c \in Conns |-> NoListener]
    /\ msgs = [m \in Ids |-> NoTask]
    /\ acks = [i \in 1..MaxAcks |-> NoAck]
    /\ nPing = 0
    /\ nInline = 0
    /\ limits = Workload(NConn - 2, 0, 0, 0, MaxAcks - 1, 0, 0)
    /\ popped = [c \in Conns |-> <<>>]
    /\ resume = [c \in Conns |-> <<>>]
    /\ routes \in Chains
    /\ handled = NoCall
    /\ walk = NoWalk

RouteNext ==
    \/ \E c \in Conns, ch \in Chans : add_socket(c, ch)
    \/ \E from \in {0} \cup Conns, message \in Messages : process(from, message)
    \/ process_put_message
    \/ \E i \in 1..MaxAcks : pop_delivered_lpop(i)
    \/ \E i \in 1..MaxAcks : pop_delivered_lrem(i)
    \/ \E i \in 1..MaxAcks : transport_gotit(i)

RouteSpec == RouteInit /\ [][RouteNext]_vars

\* The messages center with any chain of routes whose process suspends, one
\* connection and one process() call, while routes are added and removed.
WalkInit ==
    /\ reliable \in BOOLEAN
    /\ chan = [c \in Conns |-> ""]
    /\ is_closed = [c \in Conns |-> FALSE]
    /\ out = [c \in Conns |-> <<>>]
    /\ inq = [ch \in ListNames |-> <<>>]
    /\ waitq = [ch \in Chans |-> <<>>]
    /\ store = [ch \in Chans |-> [m \in Ids |-> <<>>]]
    /\ lis = [c \in Conns |-> NoListener]
    /\ msgs = [m \in Ids |-> NoTask]
    /\ acks = [i \in 1..MaxAcks |-> NoAck]
    /\ nPing = 0
    /\ nInline = 0
    /\ limits = Workload(NConn - 2, 0, 0, 0, 0, 0, 0)
    /\ popped = [c \in Conns |-> <<>>]
    /\ resume = [c \in Conns |-> <<>>]
    /\ routes \in WalkChains
    /\ handled = NoCall
    /\ walk = NoWalk

WalkNext ==
    \/ \E c \in Conns, ch \in Chans : add_socket(c, ch)
    \/ \E from \in {0} \cup Conns, raw \in RawFrames : walk_start(from, raw)
    \/ walk_route
    \/ walk_put
    \/ walk_cancel
    \/ \E route \in WalkKinds : add_route(route)
    \/ \E k \in 1..(MaxRoutes + MaxChanges) : del_route(k)
    \/ \E k \in 1..(MaxRoutes + MaxChanges), raised \in BOOLEAN : post_process(k, raised)

WalkSpec == WalkInit /\ [][WalkNext]_vars

\* --------------------------------------------------------------- properties
\* The JSON texts of the transport messages, as a client reads them.
ReadyText == Json({[f |-> "type", v |-> JInt(1000)]})
GotItText(m) == Json({[f |-> "type", v |-> JInt(100)], [f |-> "data", v |-> JStr(m)]})
DeliveredText(m) == Json({[f |-> "type", v |-> JInt(300)], [f |-> "data", v |-> JStr(m)]})
DataText(m, d) ==
    Json({[f |-> "id", v |-> JStr(m)], [f |-> "type", v |-> JStr("test")],
          [f |-> "data", v |-> JStr(DataOf(m))], [f |-> "dest", v |-> JStr(d)]})
\* The position of the first occurrence of a frame among the frames written
\* to a connection, 0 if it has not been written.
Pos(c, frame) ==
    IF Occurs(out[c], frame)
    THEN CHOOSE i \in 1..Len(out[c]) :
            out[c][i] = frame /\ \A k \in 1..(i - 1) : out[c][k] # frame
    ELSE 0

\* C1: in both queue modes the first frame written to an attached connection
\* is {"type": 1000}: nothing popped from the channel's list, no in-flight
\* message sent again, no pong and no 100 reply is written before it, and
\* nothing is written to a connection that is not attached.
C1_ReadyFirst ==
    \A c \in Conns :
        IF Attached(c) THEN out[c] # <<>> /\ out[c][1] = ReadyText
        ELSE out[c] = <<>>
\* C1: a connection of the reliable mode whose listener has popped nothing
\* yet and has sent an in-flight message again, right after the handshake.
C1_Resent ==
    /\ reliable
    /\ \E c \in Conns, m \in Ids :
          /\ popped[c] = <<>>
          /\ Len(out[c]) >= 2
          /\ out[c][1] = ReadyText
          /\ out[c][2] = DataText(m, chan[c])

\* No task of the server has a step left to take: every put_message and
\* every acknowledgement has run to its end, and every listener has returned
\* or is blocked on the empty list of its channel.
Quiescent ==
    /\ \A m \in Ids : msgs[m].pc \in {"unsent", "done"}
    /\ \A i \in 1..MaxAcks : acks[i].pc \in {"idle", "done", "failed"}
    /\ \A c \in Conns :
          IF lis[c].pc \in {"brpop", "brpoplpush"} THEN inq[chan[c]] = <<>>
          ELSE lis[c].pc \in {"none", "done", "dead"}

\* C2: with a DirectRoute and exactly one open connection r attached to the
\* destination, a data message handled from a connection of another channel
\* is eventually written to r with the same id, type and data, in both
\* modes: once every task has run as far as it can, r is still open and no
\* other connection has been attached to the destination since, r has been
\* written the message.
C2_Delivered ==
    \A m \in Ids, r \in Conns :
        (/\ Quiescent
         /\ msgs[m].pc = "done"
         /\ msgs[m].from # 0
         /\ chan[msgs[m].from] # msgs[m].dest
         /\ msgs[m].to = {r}
         /\ Open(r)
         /\ \A c \in Conns \ {r} : chan[c] = msgs[m].dest => c \in msgs[m].gone)
        => Occurs(out[r], DataText(m, msgs[m].dest))

\* C3: in reliable mode, once the receiver on channel C has sent a type 200
\* message for a message M that a sender attached on another channel S sent
\* to C and that was written to the receiver, {"type": 300, "data": M} is
\* eventually written to the sender's connection, the sender staying open
\* and being the only connection ever attached to S: once every task has run
\* as far as it can, the sender has been written the 300.
C3_Notified ==
    \A i \in 1..MaxAcks, m \in Ids :
        (/\ reliable
         /\ Quiescent
         /\ acks[i].pc \in {"done", "failed"}
         /\ acks[i].id = JStr(m)
         /\ msgs[m].from # 0
         /\ Open(msgs[m].from)
         /\ chan[msgs[m].from] # msgs[m].dest
         /\ \A c \in Conns \ {msgs[m].from} : chan[c] # chan[msgs[m].from])
        => Occurs(out[msgs[m].from], DeliveredText(m))

\* C4: in reliable mode a message M with an id that has been enqueued to
\* channel C is never lost: in every state before a type 200 message for
\* (C, M) is handled, the key C:M is in the list C or in C:wait and the list
\* C:M still begins with the frame of M.
C4_NeverLost ==
    \A m \in Ids :
        (/\ reliable
         /\ msgs[m].pc = "done"
         /\ ~AckBegun(msgs[m].dest, m))
        => /\ \/ Occurs(inq[msgs[m].dest], Key(msgs[m].dest, m))
              \/ Occurs(waitq[msgs[m].dest], Key(msgs[m].dest, m))
           /\ LIndex0(store[msgs[m].dest][m]) = DataText(m, msgs[m].dest)

\* The listener of c has left _send_wait_queue.
Drained(c) == lis[c].pc \notin {"none", "lrange", "drain", "d_lindex", "d_lindex_ret"}
\* The frame a listener writes for a value it has popped.
FrameOf(v) == IF v.k = "key" THEN DataText(v.id, v.ch) ELSE v

\* C5: in reliable mode, if the key of a message M was moved to C:wait and M
\* written to a connection that was closed before M was acknowledged, the
\* next listener attached to C writes the frame of M to its connection before
\* any frame it takes from the list C, and it sends the unacknowledged
\* messages of C:wait again oldest first: once the listener of an open
\* connection has left _send_wait_queue, each of these messages has been
\* written to the connection, in this order, before everything popped.
C5_Resumed ==
    \A c \in Conns :
        (reliable /\ Open(c) /\ Drained(c))
        => \A j \in 1..Len(resume[c]) :
              ~AckBegun(chan[c], resume[c][j].id)
              => /\ Pos(c, FrameOf(resume[c][j])) > 0
                 /\ \A i \in 1..Len(popped[c]) :
                       Pos(c, FrameOf(popped[c][i])) = 0
                       \/ Pos(c, FrameOf(popped[c][i])) > Pos(c, FrameOf(resume[c][j]))
                 /\ \A k \in (j + 1)..Len(resume[c]) :
                       ~AckBegun(chan[c], resume[c][k].id)
                       => Pos(c, FrameOf(resume[c][j])) < Pos(c, FrameOf(resume[c][k]))

\* The data message m has been written to some WebSocket.
WrittenAnywhere(m) == \E c \in Conns : Occurs(out[c], DataText(m, msgs[m].dest))

\* C6 as stated: in both modes and with any number of connections attached
\* to a channel, if the enqueue of m1 to the channel completes before the
\* enqueue of m2 begins, m1 is written to a WebSocket before m2 is: while no
\* connection has been closed, m2 is written nowhere before m1 is.
C6_EnqueueOrder ==
    \A m1, m2 \in Ids :
        (/\ \A c \in Conns : ~is_closed[c]
         /\ m1 \in msgs[m2].after
         /\ WrittenAnywhere(m2))
        => WrittenAnywhere(m1)
\* C6 amended: in both modes, if the enqueue of m1 to a channel completes
\* before the enqueue of m2 begins, a connection that is written both is
\* written m1 before m2.
C6_PerConnection ==
    \A c \in Conns, m1, m2 \in Ids :
        (/\ m1 \in msgs[m2].after
         /\ Pos(c, DataText(m1, msgs[m1].dest)) > 0
         /\ Pos(c, DataText(m2, msgs[m2].dest)) > 0)
        => Pos(c, DataText(m1, msgs[m1].dest)) < Pos(c, DataText(m2, msgs[m2].dest))
\* C6: two messages enqueued one after the other to a channel with two
\* connections attached have both been written to one of them.
C6_BothWritten ==
    \E c, k \in Conns, m1, m2 \in Ids :
        /\ c # k
        /\ Attached(k)
        /\ chan[k] = chan[c]
        /\ m1 \in msgs[m2].after
        /\ Pos(c, DataText(m1, msgs[m1].dest)) > 0
        /\ Pos(c, DataText(m2, msgs[m2].dest)) > 0

\* Redis holds something of the data message m.
Enqueued(m) ==
    \E ch \in Chans :
        \/ store[ch][m] # <<>>
        \/ Occurs(inq[ch], Key(ch, m)) \/ Occurs(waitq[ch], Key(ch, m))
        \/ Occurs(inq[ch], DataText(m, ch)) \/ Occurs(waitq[ch], DataText(m, ch))

\* C7: for every data message with id M handled from a connection, the 100
\* frame carrying M is written to that connection before the message is
\* enqueued to any channel, so the sender's connection is never written a
\* 300 for M before the 100 for M.
C7_GotItFirst ==
    \A m \in Ids :
        msgs[m].from # 0
        => /\ (msgs[m].pc # "unsent" \/ Enqueued(m) \/ WrittenAnywhere(m))
              => Pos(msgs[m].from, GotItText(m)) > 0
           /\ Pos(msgs[m].from, DeliveredText(m)) > 0
              => /\ Pos(msgs[m].from, GotItText(m)) > 0
                 /\ Pos(msgs[m].from, GotItText(m)) < Pos(msgs[m].from, DeliveredText(m))
\* C7: a sender that has been written the 300 for its message.
C7_SenderNotified ==
    \E m \in Ids :
        /\ msgs[m].from # 0
        /\ Pos(msgs[m].from, DeliveredText(m)) > 0

\* {"type": 300, "data": m} has been enqueued: it is in a Redis list or has
\* been popped from one.
NotificationEnqueued(m) ==
    \/ \E ch \in ListNames : Occurs(inq[ch], DeliveredText(m))
    \/ \E ch \in Chans : Occurs(waitq[ch], DeliveredText(m))
    \/ \E c \in Conns : Occurs(popped[c], DeliveredText(m))

\* C8: a 300 notification for id M is enqueued only while handling a 200 for
\* M whose acknowledgement popped a stored record: whenever {"type": 300,
\* "data": M} has been enqueued, the server has received {"type": 200,
\* "data": M} on the channel M was sent to, and its first LPOP returned a
\* record.
C8_NotifiedAfterAck ==
    \A n \in 1..Len(IdNames) :
        NotificationEnqueued(IdNames[n])
        => /\ IdNames[n] \in Ids
           /\ \E i \in 1..MaxAcks :
                 /\ acks[i].pc # "idle"
                 /\ acks[i].id = JStr(IdNames[n])
                 /\ acks[i].got
                 /\ chan[acks[i].conn] = msgs[IdNames[n]].dest
\* C8: a 300 notification is in the list of the sender's channel.
C8_Enqueued ==
    \E m \in Ids :
        /\ msgs[m].from # 0
        /\ Occurs(inq[chan[msgs[m].from]], DeliveredText(m))

\* C9: in reliable mode, once the handling of a receiver's type 200 message
\* for a message M on channel C has finished, M having been enqueued to C
\* once and written to the receiver, the list C:M is empty and the key C:M
\* does not occur in C:wait.
C9_AckCleans ==
    \A i \in 1..MaxAcks :
        (reliable /\ acks[i].pc \in {"done", "failed"})
        => /\ store[chan[acks[i].conn]][acks[i].id.s] = <<>>
           /\ ~Occurs(waitq[chan[acks[i].conn]],
                      Key(chan[acks[i].conn], acks[i].id.s))
\* C9: an acknowledgement that popped the stored record has finished.
C9_Acked ==
    \E i \in 1..MaxAcks : reliable /\ acks[i].pc = "done" /\ acks[i].got

\* An acknowledgement of m on channel ch is between its first LPOP and the
\* reply of its LREM.
AckRunning(ch, m) ==
    \E i \in 1..MaxAcks :
        /\ acks[i].pc \in {"lpop", "lrem"}
        /\ acks[i].id = JStr(m)
        /\ chan[acks[i].conn] = ch

C12_OneAckWins ==
    \A i, j \in 1..MaxAcks :
        (/\ reliable
         /\ i < j
         /\ acks[i].pc \in {"done", "failed"}
         /\ acks[j].pc \in {"done", "failed"}
         /\ acks[i].id = acks[j].id
         /\ chan[acks[i].conn] = chan[acks[j].conn]
         /\ (acks[i].got \/ acks[j].got))
        => /\ acks[i].pc = "done"
           /\ acks[j].pc = "done"
           /\ acks[i].got # acks[j].got

\* C13: in both modes, after del_socket the listener task of the closed
\* connection eventually returns and closes its Redis connection, also when
\* other connections are attached to the channel or other values are in its
\* list: once every task has run as far as it can, the listener of a closed
\* connection has returned, unless it is a best-effort listener whose BRPOP
\* has still to time out or a listener that a write to the closed WebSocket
\* has ended with an exception.
C13_ListenerExits ==
    \A c \in Conns :
        (/\ is_closed[c]
         /\ Quiescent
         /\ lis[c].pc \notin {"brpop", "dead"})
        => lis[c].pc = "done"

\* The routes of the chain that answer True (stop) to the message of the last
\* process() call, by their place in the chain.
Stops == {i \in 1..Len(routes) : RouteProcess(routes[i], handled.message).r = "stop"}

\* C14: if a route's process returns True (stop) for a message, no later
\* route's process is invoked and the message is not enqueued to any channel,
\* the channels nominated by earlier routes of the chain included.
C14_StopDropsMessage ==
    \A i \in Stops :
        (handled.n > 0 /\ i <= handled.invoked)
        => (handled.invoked = i /\ handled.enq = <<>>)

\* The channels which the routes consulted for the message of the last
\* process() call nominate, in registration order: those of the routes up to
\* the first that stops the chain.
Consulted == IF Stops = {} THEN Len(routes)
             ELSE CHOOSE i \in Stops : \A k \in Stops : i <= k
Nominated ==
    LET answers == [i \in 1..Consulted |-> RouteProcess(routes[i], handled.message)]
        named == SelectSeq(answers, LAMBDA a : a.r = "channel")
    IN [i \in 1..Len(named) |-> named[i].ch]

\* C15: one process() call of a data message calls put_message at most once:
\* exactly once, with the list of the channels the routes nominate in
\* registration order, when at least one route nominates a channel, and not
\* at all, without an error, when every route returns None.
C15_EnqueuedOnce ==
    (handled.n > 0 /\ ~IsTransport(handled.message))
    => /\ ~handled.raised
       /\ handled.enq = IF Nominated = <<>> THEN <<>> ELSE <<Nominated>>

\* C16: process() of a transport message invokes no route's process and does
\* not pass the message to put_message, whether or not a websocket is given.
C16_TransportNotRouted ==
    (handled.n > 0 /\ IsTransport(handled.message))
    => (handled.invoked = 0 /\ handled.enq = <<>>)

\* The type 100 frames among the frames written by the last process() call.
GotItFrames ==
    SelectSeq(handled.wrote,
              LAMBDA frame : /\ Loadable(frame)
                             /\ load_message(frame)["type"] = JInt(100))

\* C17: each code of the closed transport set 100, 200, 300, 1000, 1001,
\* 1002 is classified as transport: a message of any of these types handled
\* from a connection gets no type 100 reply and is not passed to the chain.
C17_ClosedSet ==
    (/\ handled.n > 0
     /\ handled.from # 0
     /\ handled.message["type"] \in {JInt(100), JInt(200), JInt(300), JInt(1000),
                                      JInt(1001), JInt(1002)})
    => (GotItFrames = <<>> /\ handled.invoked = 0 /\ handled.enq = <<>>)

\* The last process() call is that of a message with an id and an integer
\* type outside the closed transport set, received from a connection.
UnknownCode ==
    /\ handled.n > 0
    /\ handled.from # 0
    /\ Has(handled.message, "id")
    /\ handled.message["type"].j = "int"
    /\ handled.message["type"].n \notin {100, 200, 300, 1000, 1001, 1002}

PongText == Json({[f |-> "type", v |-> JInt(1002)]})
\* The last process() call is that of a type 1001 message from a connection.
PingHandled ==
    /\ handled.n > 0
    /\ handled.from # 0
    /\ handled.message["type"] = JInt(1001)

\* C19: process() of a type 1001 message from a connection writes exactly one
\* frame, of type 1002, to that connection, calls no route and leaves every
\* Redis list as it is, in both modes.
C19_PingPong ==
    [][(handled'.n # handled.n /\ PingHandled')
       => /\ out' = [out EXCEPT ![handled'.from] = @ \o <<PongText>>]
          /\ handled'.wrote = <<PongText>>
          /\ handled'.invoked = 0 /\ handled'.enq = <<>> /\ ~handled'.raised
          /\ inq' = inq /\ waitq' = waitq /\ store' = store]_vars
\* A ping has been handled while a Redis list held a message.
C19_PingAnswered ==
    /\ PingHandled
    /\ handled.wrote = <<PongText>>
    /\ \E ch \in Chans : inq[ch] # <<>>

\* C20: when the record popped by an acknowledgement has an empty from
\* channel (the message was enqueued without a sender connection), handling
\* the type 200 message pushes no 300 notification to any Redis list.
C20_NoSenderNoNotification ==
    [][\A i \in 1..MaxAcks :
          (/\ acks[i].pc = "notify"
           /\ acks[i].from = Plain("")
           /\ acks'[i].pc # "notify")
          => inq' = inq]_vars

\* The routes registered when the loop of the step-by-step process() call
\* began, up to the first that answers True, and the channels these nominate;
\* a route that raises nominates nothing.
WalkStops == {i \in 1..Len(walk.began) :
                 RouteProcess(walk.began[i], walk.message).r = "stop"}
WalkConsulted ==
    IF WalkStops = {} THEN walk.began
    ELSE SubSeq(walk.began, 1, CHOOSE i \in WalkStops : \A k \in WalkStops : i <= k)
WalkNominated ==
    LET answers == [i \in 1..Len(WalkConsulted) |->
                       RouteProcess(WalkConsulted[i], walk.message)]
        named == SelectSeq(answers, LAMBDA a : a.r = "channel")
    IN [i \in 1..Len(named) |-> named[i].ch]
WalkEnqueued == [k \in 1..Len(walk.destinations) |-> walk.destinations[k].ch]

\* C21: if a route's process raises for a message, the process() call skips
\* that route and continues the chain: once the call is over, the later
\* routes have been consulted and the channels nominated by the other routes
\* have been enqueued (the chain is not changed during the call).
C21_RaiseSkipsRoute ==
    (walk.raised /\ walk.changes = 0 /\ walk.pc \notin {"route", "put"})
    => /\ walk.pc = "done"
       /\ walk.consulted = WalkConsulted
       /\ WalkEnqueued = WalkNominated

\* C22: process() of a raw text frame that fails to parse returns without
\* writing any frame, invoking any route or changing any Redis list, and the
\* connection stays attached with its listener still running; the call does
\* nothing afterwards either.
C22_BadFrameDropped ==
    [][/\ (walk.pc = "idle" /\ walk'.pc # "idle" /\ walk'.raw.k # "json")
          => /\ walk'.pc = "dropped"
             /\ walk'.consulted = <<>> /\ walk'.posts = <<>>
             /\ out' = out
             /\ inq' = inq /\ waitq' = waitq /\ store' = store
             /\ chan' = chan /\ is_closed' = is_closed /\ lis' = lis
       /\ walk.pc = "dropped"
          => (walk'.pc = "dropped" /\ walk'.consulted = <<>> /\ walk'.posts = <<>>)]_vars
\* A frame that is no JSON text, received from an attached connection whose
\* listener has been started, has been dropped.
C22_Dropped ==
    /\ walk.pc = "dropped"
    /\ walk.raw = Plain("hi")
    /\ walk.from # 0
    /\ Open(walk.from)
    /\ lis[walk.from].pc \in {"brpop", "lrange"}

\* C23: a process() call consults exactly the routes that were registered
\* when its loop began, each once and in registration order (up to a route
\* that answers True), even if add_route or del_route runs while the call is
\* suspended inside a route's process.
C23_ConsultsSnapshot ==
    /\ Len(walk.consulted) <= Len(WalkConsulted)
    /\ walk.consulted = SubSeq(WalkConsulted, 1, Len(walk.consulted))
    /\ walk.pc \in {"put", "done"} => walk.consulted = WalkConsulted

\* C24: during a process() call of a data message no Redis list is modified
\* until every route's process has returned or True has ended the chain: a
\* step changes a list only when put_message is running or when it is the
\* return of the route that ends the loop, and cancelling the call while it
\* is suspended in a route changes none.
C24_QueueUntouchedInChain ==
    [][/\ (inq' # inq \/ waitq' # waitq \/ store' # store)
          => \/ walk.pc = "put"
             \/ /\ walk.pc = "route"
                /\ walk'.pc \in {"put", "done"}
                /\ \/ RouteProcess(walk.route, walk.message).r = "stop"
                   \/ walk.i >= Len(routes)
       /\ walk'.pc \in {"route", "cancelled", "raised"}
          => (inq' = inq /\ waitq' = waitq /\ store' = store)]_vars
\* The call has been cancelled after a route had nominated a channel, and
\* the Redis lists are empty as they were when the call began.
C24_CancelledMidChain ==
    /\ walk.pc = "cancelled"
    /\ walk.destinations # <<>>
    /\ \A ch \in Chans : inq[ch] = <<>> /\ \A m \in Ids : store[ch][m] = <<>>

\* History: the message m has been enqueued to channel ch (the RPUSH of its
\* put_message has been executed), and acknowledgements of (ch, m) have
\* executed two LPOPs between them.
RecordStored(ch, m) == msgs[m].pc # "unsent" /\ msgs[m].dest = ch
AcksOf(ch, m) ==
    {i \in 1..MaxAcks : /\ acks[i].pc # "idle"
                        /\ acks[i].id = JStr(m)
                        /\ chan[acks[i].conn] = ch}
RecordPopped(ch, m) ==
    \/ Cardinality(AcksOf(ch, m)) >= 2
    \/ \E i \in AcksOf(ch, m) : acks[i].pc # "lpop"

\* C25: in reliable mode check_delivered(C, M) is true exactly when the list
\* C:M is empty: false from the enqueue of M to C until its acknowledgement
\* has popped the record, true after it and for ids never enqueued to C; in
\* best-effort mode it is true in every state.
C25_CheckDelivered ==
    \A ch \in Chans, m \in Ids :
        /\ check_delivered(ch, m) = (~reliable \/ store[ch][m] = <<>>)
        /\ check_delivered(ch, m)
              = (~reliable \/ ~RecordStored(ch, m) \/ RecordPopped(ch, m))
\* In reliable mode a message has been enqueued, written and acknowledged,
\* and check_delivered is true for it.
C25_DeliveredAfterAck ==
    /\ reliable
    /\ \E ch \in Chans, m \in Ids :
          /\ RecordStored(ch, m)
          /\ \E i \in AcksOf(ch, m) : acks[i].pc = "done" /\ acks[i].got
          /\ check_delivered(ch, m)

\* C26: in reliable mode, when a listener handles an inline frame (a popped
\* value that is not a message key), the LPOP that follows removes exactly
\* that frame from C:wait, and so never a message key awaiting its
\* acknowledgement, also when several listeners serve C.
C26_LPopRemovesOwnFrame ==
    [][\A c \in Conns :
          (lis[c].pc = "lpop" /\ lis'[c].pc # "lpop")
          => /\ waitq[chan[c]] # <<>>
             /\ LIndex0(waitq[chan[c]]) = Last(popped[c])
             /\ LIndex0(waitq[chan[c]]).k # "key"
             /\ waitq'[chan[c]] = Tail(waitq[chan[c]])]_vars

\* History: an acknowledgement of (ch, id) has popped the record and has
\* finished.
Acked(ch, id) ==
    \E k \in 1..MaxAcks : /\ acks[k].pc = "done"
                          /\ acks[k].got
                          /\ acks[k].id = id
                          /\ chan[acks[k].conn] = ch
\* Where {"type": 300, "data": m} lies: in a Redis list or with the listener
\* that popped it.
Notifications(m) ==
    UNION {{<<"list", ch, i>> : i \in {j \in DOMAIN inq[ch] :
                                          inq[ch][j] = DeliveredText(m)}} :
           ch \in ListNames}
    \cup
    UNION {{<<"popped", c, i>> : i \in {j \in DOMAIN popped[c] :
                                           popped[c][j] = DeliveredText(m)}} :
           c \in Conns}

WalkQueued(ch) ==
    IF reliable THEN Key(ch, walk.message["id"].s) ELSE dump_message(walk.message)
\* The post_process tasks are those of the collected pairs, each once, and
\* exist only once the message is in the list of every collected channel.
PostsStarted ==
    /\ walk.pc # "done" => walk.posts = <<>>
    /\ walk.pc = "done"
       => /\ Len(walk.posts) = Len(walk.destinations)
          /\ \A k \in 1..Len(walk.posts) :
                /\ walk.posts[k].route = walk.destinations[k].route
                /\ walk.posts[k].ch = walk.destinations[k].ch
                /\ Occurs(inq[walk.destinations[k].ch],
                          WalkQueued(walk.destinations[k].ch))

\* C28: route.post_process(message, channel, queue) is started exactly once
\* for each (route, channel) pair collected in the chain walk, only after the
\* put_message call has completed, and the failure of one such task changes
\* neither the Redis lists nor the other post_process tasks.
C28_PostProcess ==
    [][/\ PostsStarted'
       /\ \A k \in 1..Len(walk.posts) :
             (walk.posts[k].pc = "started" /\ walk'.posts[k].pc # "started")
             => /\ inq' = inq /\ waitq' = waitq /\ store' = store
                /\ walk'.pc = walk.pc
                /\ Len(walk'.posts) = Len(walk.posts)
                /\ \A j \in 1..Len(walk.posts) :
                      j # k => walk'.posts[j] = walk.posts[j]]_vars
\* Two post_process tasks were started; the first has failed and the second
\* has run to its end.
C28_OneFailed ==
    /\ walk.pc = "done"
    /\ Len(walk.posts) = 2
    /\ walk.posts[1].pc = "failed"
    /\ walk.posts[2].pc = "done"

\* C29: the close command is never written to any WebSocket as a frame, in
\* either mode, also when it is left in a channel's list after its listener
\* has returned or is popped by the listener of another, still open,
\* connection of the channel.
C29_SentinelNotWritten ==
    \A c \in Conns : ~Occurs(out[c], CLOSE_COMMAND)

\* C30: a listener returns only after del_socket was called for its own
\* connection: closing one of several connections of a channel never ends
\* the listener of another, still open, connection.
C30_OwnCloseOnly ==
    \A c \in Conns : lis[c].pc = "done" => is_closed[c]

\* C31: in best-effort mode a listener never discards a data frame it removed
\* from the channel's list: every value it has popped is the close command,
\* has been written to its WebSocket, or is the reply it has not resumed
\* with yet.
C31_NothingDiscarded ==
    ~reliable
    => \A c \in Conns : \A i \in DOMAIN popped[c] :
          \/ popped[c][i] = CLOSE_COMMAND
          \/ Occurs(out[c], popped[c][i])
          \/ /\ i = Len(popped[c])
             /\ lis[c].pc = "brpop_ret"
             /\ lis[c].val = popped[c][i]

====
